---------------------------- MODULE Spec2Model ----------------------------
(***************************************************************************)
(* Model of the voice-notes client in src/index.tsx (class VoiceNotesApp   *)
(* and the DOMContentLoaded placeholder handlers).                         *)
(*                                                                         *)
(* The browser runs one task at a time, so every action below is one task  *)
(* (an event handler, or the part of an async function between two awaits, *)
(* together with the microtasks it releases).  Handlers are written as     *)
(* operators from the application state S (a record of all the variables)  *)
(* to the state they leave; an action applies one handler to the current   *)
(* state.                                                                  *)
(*                                                                         *)
(* Text is a sequence of one-character strings.  Markup the program writes *)
(* as a unit (a tag, a placeholder attribute, an inline error message) is  *)
(* one element of such a sequence.                                         *)
(***************************************************************************)
EXTENDS Integers, Sequences, FiniteSets, TLC

VARIABLES
    currentNote,        \* this.currentNote
    editorTitle,        \* .editor-title: [text, ph]  (ph: class placeholder-active)
    polishedNote,       \* #polishedNote: [html, ph]
    elaboratedNote,     \* #elaboratedNote: [html, ph]
    notesHistory,       \* this.notesHistory
    historyList,        \* #historyList: the note ids of the rendered items
    localStorage,       \* [history, draft]: the two storage slots, << >> when unset;
                        \* unreadable: the slots whose read or parse throws;
                        \* writable: setItem does not throw
    autoSaveTimeoutId,  \* this.autoSaveTimeoutId (0: null)
    timeouts,           \* the window's pending setTimeout timers: {[id, remaining]}
    sinceSchedule,      \* time elapsed since the last scheduleAutoSave call
    nextNoteId,         \* Date.now() as used for note ids: strictly increasing
    gestures,           \* number of user gestures that start something new, so far
    isRecording,        \* this.isRecording
    stream,             \* this.stream (0: null)
    mediaRecorder,      \* this.mediaRecorder (0: null)
    audioChunks,        \* this.audioChunks: recorder ids, one per blob pushed
    audioContext,       \* this.audioContext (0: null)
    analyserNode,       \* this.analyserNode /= null
    waveformDrawingId,  \* this.waveformDrawingId /= null
    timerIntervalId,    \* this.timerIntervalId /= null
    recordButton,       \* recordButton has class "recording"
    isLive,             \* recordingInterface has class "is-live"
    recordingStatus,    \* recordingStatus.textContent
    liveStreams,        \* streams whose tracks have not been stopped
    openContexts,       \* audio contexts not yet closed
    recorders,          \* the MediaRecorder objects: [state, stream]
    taskQueue,          \* recorders whose dataavailable/stop events are queued
    starts,             \* startRecording calls suspended at an await
    runs                \* transcription pipelines: processAudio/getTranscription calls

vars == << currentNote, editorTitle, polishedNote, elaboratedNote, notesHistory,
           historyList, localStorage, autoSaveTimeoutId, timeouts, sinceSchedule,
           nextNoteId, gestures, isRecording, stream, mediaRecorder,
           audioChunks, audioContext, analyserNode, waveformDrawingId,
           timerIntervalId, recordButton, isLive, recordingStatus, liveStreams,
           openContexts, recorders, taskQueue, starts, runs >>

\* The application state as one record, and its assignment to the variables.
St ==
    [ currentNote |-> currentNote, editorTitle |-> editorTitle,
      polishedNote |-> polishedNote, elaboratedNote |-> elaboratedNote,
      notesHistory |-> notesHistory, historyList |-> historyList,
      localStorage |-> localStorage, autoSaveTimeoutId |-> autoSaveTimeoutId,
      timeouts |-> timeouts, sinceSchedule |-> sinceSchedule,
      nextNoteId |-> nextNoteId, gestures |-> gestures, isRecording |-> isRecording,
      stream |-> stream, mediaRecorder |-> mediaRecorder,
      audioChunks |-> audioChunks, audioContext |-> audioContext,
      analyserNode |-> analyserNode, waveformDrawingId |-> waveformDrawingId,
      timerIntervalId |-> timerIntervalId, recordButton |-> recordButton,
      isLive |-> isLive, recordingStatus |-> recordingStatus,
      liveStreams |-> liveStreams, openContexts |-> openContexts,
      recorders |-> recorders, taskQueue |-> taskQueue, starts |-> starts,
      runs |-> runs ]

Becomes(S) ==
    /\ currentNote' = S.currentNote
    /\ editorTitle' = S.editorTitle
    /\ polishedNote' = S.polishedNote
    /\ elaboratedNote' = S.elaboratedNote
    /\ notesHistory' = S.notesHistory
    /\ historyList' = S.historyList
    /\ localStorage' = S.localStorage
    /\ autoSaveTimeoutId' = S.autoSaveTimeoutId
    /\ timeouts' = S.timeouts
    /\ sinceSchedule' = S.sinceSchedule
    /\ nextNoteId' = S.nextNoteId
    /\ gestures' = S.gestures
    /\ isRecording' = S.isRecording
    /\ stream' = S.stream
    /\ mediaRecorder' = S.mediaRecorder
    /\ audioChunks' = S.audioChunks
    /\ audioContext' = S.audioContext
    /\ analyserNode' = S.analyserNode
    /\ waveformDrawingId' = S.waveformDrawingId
    /\ timerIntervalId' = S.timerIntervalId
    /\ recordButton' = S.recordButton
    /\ isLive' = S.isLive
    /\ recordingStatus' = S.recordingStatus
    /\ liveStreams' = S.liveStreams
    /\ openContexts' = S.openContexts
    /\ recorders' = S.recorders
    /\ taskQueue' = S.taskQueue
    /\ starts' = S.starts
    /\ runs' = S.runs

StartsAs(S) ==
    /\ currentNote = S.currentNote
    /\ editorTitle = S.editorTitle
    /\ polishedNote = S.polishedNote
    /\ elaboratedNote = S.elaboratedNote
    /\ notesHistory = S.notesHistory
    /\ historyList = S.historyList
    /\ localStorage = S.localStorage
    /\ autoSaveTimeoutId = S.autoSaveTimeoutId
    /\ timeouts = S.timeouts
    /\ sinceSchedule = S.sinceSchedule
    /\ nextNoteId = S.nextNoteId
    /\ gestures = S.gestures
    /\ isRecording = S.isRecording
    /\ stream = S.stream
    /\ mediaRecorder = S.mediaRecorder
    /\ audioChunks = S.audioChunks
    /\ audioContext = S.audioContext
    /\ analyserNode = S.analyserNode
    /\ waveformDrawingId = S.waveformDrawingId
    /\ timerIntervalId = S.timerIntervalId
    /\ recordButton = S.recordButton
    /\ isLive = S.isLive
    /\ recordingStatus = S.recordingStatus
    /\ liveStreams = S.liveStreams
    /\ openContexts = S.openContexts
    /\ recorders = S.recorders
    /\ taskQueue = S.taskQueue
    /\ starts = S.starts
    /\ runs = S.runs

-----------------------------------------------------------------------------
(* Bounds of the model *)

\* user gestures that start something new: a new note, a recording, an edit
MaxGestures == 2
\* history items within the user's reach, from the top of the panel
MaxPick == 2
MaxPrefix == 2
\* the largest step by which time advances between two tasks (ms)
TimeStep == 750
\* ids of the notes a stored History holds lie above this
StoredIdBase == 100

(* Program constants *)
MAX_HISTORY_ITEMS == 20
AUTO_SAVE_DELAY == 1500
\* maxLength in getPolishedNote's title fallback
maxLength == 60

-----------------------------------------------------------------------------
(* Text *)

IsSpace(c) == c \in {" ", "\n", "\t"}
\* The grave accent, which a string of this language cannot hold.
Backquote == "backquote"
IsDigit(c) == c \in {"0", "1", "2", "3", "4", "5", "6", "7", "8", "9"}

RECURSIVE TrimStart(_)
TrimStart(s) ==
    IF s # << >> /\ IsSpace(Head(s)) THEN TrimStart(Tail(s)) ELSE s

RECURSIVE TrimEnd(_)
TrimEnd(s) ==
    IF s # << >> /\ IsSpace(s[Len(s)]) THEN TrimEnd(SubSeq(s, 1, Len(s) - 1)) ELSE s

\* String.prototype.trim
Trim(s) == TrimEnd(TrimStart(s))

Min(a, b) == IF a < b THEN a ELSE b


-----------------------------------------------------------------------------
(* Notes, the editable elements and their placeholders *)

\* A Note.  Its timestamp is written and never read by the controller, and
\* is left out.
Note(id, title, raw, polished, elaborated) ==
    [ id |-> id, title |-> title, rawTranscription |-> raw,
      polishedNote |-> polished, elaboratedNote |-> elaborated ]

\* The placeholder attributes of the three elements.
TitlePlaceholder == << "Untitled Note" >>
PolishedPlaceholder == << "polished-placeholder" >>
ElaboratedPlaceholder == << "elaborated-placeholder" >>

Tags == { "<p>", "</p>", "<em>", "</em>" }
IsText(c) == c \notin Tags

\* innerText of an element whose innerHTML is html
InnerText(html) == SelectSeq(html, IsText)

\* marked.parse: the markdown renderer, an external library.  Markdown
\* that is blank renders to nothing, other markdown to an element.
MarkedParse(text) ==
    IF Trim(text) = << >> THEN << >> ELSE << "<p>" >> \o Trim(text) \o << "</p>" >>

\* An inline message as the program writes it: <p><em>message</em></p>
InlineMessage(msg) == << "<p>", "<em>", msg, "</em>", "</p>" >>

-----------------------------------------------------------------------------
(* Timers of the window *)

TimeoutIds(S) == { t.id : t \in S.timeouts }

\* With no timer pending the elapsed time is not observed.
SettleClock(S) ==
    IF S.timeouts = {} THEN [S EXCEPT !.sinceSchedule = 0] ELSE S

clearTimeout(S, id) ==
    SettleClock([S EXCEPT !.timeouts = { t \in S.timeouts : t.id # id }])

\* window.setTimeout returns an id no pending timer uses.
FreshTimeoutId(S) ==
    CHOOSE n \in 1..(Cardinality(S.timeouts) + 1) :
        /\ n \notin TimeoutIds(S)
        /\ \A m \in 1..(n - 1) : m \in TimeoutIds(S)

\* A mutant: a timer already pending is left to run (leading-edge timing).
scheduleAutoSaveKeepsTimer(S) ==
    IF S.autoSaveTimeoutId # 0 /\ S.autoSaveTimeoutId \in TimeoutIds(S)
    THEN [S EXCEPT !.sinceSchedule = 0]
    ELSE LET id == FreshTimeoutId(S)
         IN  [S EXCEPT !.timeouts = @ \cup {[id |-> id, remaining |-> AUTO_SAVE_DELAY]},
                       !.autoSaveTimeoutId = id,
                       !.sinceSchedule = 0]

scheduleAutoSave(S) ==
    LET S1 == IF S.autoSaveTimeoutId # 0
              THEN clearTimeout(S, S.autoSaveTimeoutId) ELSE S
        id == FreshTimeoutId(S1)
    IN  [S1 EXCEPT !.timeouts = @ \cup {[id |-> id, remaining |-> AUTO_SAVE_DELAY]},
                   !.autoSaveTimeoutId = id,
                   !.sinceSchedule = 0]

-----------------------------------------------------------------------------
(* Note / History / Draft *)

\* A mutant: the regions are read whatever their placeholder flags say.
updateCurrentNoteFromDOMIgnoresFlags(S) ==
    LET currentTitle == Trim(S.editorTitle.text)
    IN  [S EXCEPT
          !.currentNote.title =
              IF currentTitle = TitlePlaceholder \/ currentTitle = << >>
              THEN << >> ELSE currentTitle,
          !.currentNote.polishedNote = S.polishedNote.html,
          !.currentNote.elaboratedNote = S.elaboratedNote.html]

updateCurrentNoteFromDOM(S) ==
    LET currentTitle == Trim(S.editorTitle.text)
    IN  [S EXCEPT
          !.currentNote.title =
              IF currentTitle = TitlePlaceholder \/ currentTitle = << >>
              THEN << >> ELSE currentTitle,
          !.currentNote.polishedNote =
              IF S.polishedNote.ph THEN << >> ELSE S.polishedNote.html,
          !.currentNote.elaboratedNote =
              IF S.elaboratedNote.ph THEN << >> ELSE S.elaboratedNote.html]

\* A mutant: no note counts as empty.
isEffectivelyEmptyNever(n) == FALSE

isEffectivelyEmpty(n) ==
    /\ Trim(n.rawTranscription) = << >>
    /\ Trim(n.polishedNote) = << >>
    /\ Trim(n.elaboratedNote) = << >>
    /\ Trim(n.title) = << >>

\* localStorage.setItem(key, JSON.stringify(value)); the caller catches
\* what it throws.
setItem(S, key, value) ==
    IF S.localStorage.writable
    THEN [S EXCEPT !.localStorage =
            [[@ EXCEPT ![key] = << value >>] EXCEPT !.unreadable = @ \ {key}]]
    ELSE S

saveHistory(S) == setItem(S, "history", S.notesHistory)

renderHistory(S) ==
    [S EXCEPT !.historyList = [i \in 1..Len(S.notesHistory) |-> S.notesHistory[i].id]]

\* notesHistory.findIndex(note => note.id === id), 0 for -1
findIndex(h, id) ==
    IF \E i \in 1..Len(h) : h[i].id = id
    THEN CHOOSE i \in 1..Len(h) : h[i].id = id /\ \A j \in 1..(i - 1) : h[j].id # id
    ELSE 0

\* Array.prototype.splice(index, 1)
splice(h, i) == SubSeq(h, 1, i - 1) \o SubSeq(h, i + 1, Len(h))

\* A mutant: the entry found is not removed.
removeExistingKept(h, id) == h

removeExisting(h, id) ==
    IF findIndex(h, id) > 0 THEN splice(h, findIndex(h, id)) ELSE h

\* A mutant: the cap is applied one entry late.
truncateLate(h) ==
    IF Len(h) > MAX_HISTORY_ITEMS + 1 THEN SubSeq(h, 1, MAX_HISTORY_ITEMS + 1) ELSE h

truncate(h) ==
    IF Len(h) > MAX_HISTORY_ITEMS THEN SubSeq(h, 1, MAX_HISTORY_ITEMS) ELSE h

\* A mutant: what setItem throws leaves saveCurrentNoteToHistory.
saveCurrentNoteToHistoryWriteEscapes(S) ==
    LET S1 == updateCurrentNoteFromDOM(S)
        S2 == [S1 EXCEPT !.notesHistory =
                  truncate(<< S1.currentNote >> \o removeExisting(S1.notesHistory, S1.currentNote.id))]
    IN  IF isEffectivelyEmpty(S1.currentNote)
        THEN S1
        ELSE IF S.localStorage.writable THEN renderHistory(saveHistory(S2)) ELSE S2

saveCurrentNoteToHistory(S) ==
    LET S1 == updateCurrentNoteFromDOM(S)
        noteToSave == S1.currentNote
    IN  IF isEffectivelyEmpty(S1.currentNote)
        THEN S1
        ELSE renderHistory(saveHistory(
                [S1 EXCEPT !.notesHistory =
                    truncate(<< noteToSave >> \o removeExisting(S1.notesHistory, noteToSave.id))]))

saveDraft(S, immediate) ==
    LET S1 == IF S.autoSaveTimeoutId # 0 /\ ~immediate
              THEN [clearTimeout(S, S.autoSaveTimeoutId) EXCEPT !.autoSaveTimeoutId = 0]
              ELSE S
        S2 == updateCurrentNoteFromDOM(S1)
    IN  setItem(S2, "draft", S2.currentNote)

\* A mutant: an empty field is shown as it is stored.
populateNoPlaceholder(S) ==
    [S EXCEPT
      !.editorTitle = [text |-> S.currentNote.title, ph |-> FALSE],
      !.elaboratedNote = [html |-> S.currentNote.elaboratedNote, ph |-> FALSE],
      !.polishedNote = [html |-> S.currentNote.polishedNote, ph |-> FALSE]]

\* The title and the two regions populated from the open Note
\* (the same statements in loadNote and in loadDraft).
populate(S) ==
    [S EXCEPT
      !.editorTitle =
          IF S.currentNote.title # << >>
          THEN [text |-> S.currentNote.title, ph |-> FALSE]
          ELSE [text |-> TitlePlaceholder, ph |-> TRUE],
      !.elaboratedNote =
          IF S.currentNote.elaboratedNote # << >>
          THEN [html |-> S.currentNote.elaboratedNote, ph |-> FALSE]
          ELSE [html |-> ElaboratedPlaceholder, ph |-> TRUE],
      !.polishedNote =
          IF S.currentNote.polishedNote # << >>
          THEN [html |-> S.currentNote.polishedNote, ph |-> FALSE]
          ELSE [html |-> PolishedPlaceholder, ph |-> TRUE]]

\* A mutant: the open note is dropped without a commit.
loadNoteNoCommit(S, noteId) ==
    IF findIndex(S.notesHistory, noteId) = 0
    THEN S
    ELSE LET noteToLoad == S.notesHistory[findIndex(S.notesHistory, noteId)]
         IN  saveDraft(populate([S EXCEPT !.currentNote = noteToLoad]), TRUE)

loadNote(S, noteId) ==
    IF findIndex(S.notesHistory, noteId) = 0
    THEN S
    ELSE LET noteToLoad == S.notesHistory[findIndex(S.notesHistory, noteId)]
             S1 == saveCurrentNoteToHistory(S)
         IN  saveDraft(populate([S1 EXCEPT !.currentNote = noteToLoad]), TRUE)

\* loadDraft returns true: the slot is read, holds a draft, and it parses.
draftLoaded(S) ==
    "draft" \notin S.localStorage.unreadable /\ S.localStorage.draft # << >>

loadDraft(S) ==
    IF draftLoaded(S)
    THEN populate([S EXCEPT !.currentNote = S.localStorage.draft[1]])
    ELSE S

loadHistory(S) ==
    IF "history" \in S.localStorage.unreadable
    THEN [S EXCEPT !.notesHistory = << >>]
    ELSE IF S.localStorage.history # << >>
    THEN [S EXCEPT !.notesHistory = S.localStorage.history[1]]
    ELSE S

-----------------------------------------------------------------------------
(* The capture platform: streams, recorders, audio contexts *)

Max(a, b) == IF a > b THEN a ELSE b

RECURSIVE MaxOf(_)
MaxOf(set) ==
    IF set = {} THEN 0
    ELSE LET x == CHOOSE y \in set : TRUE IN Max(x, MaxOf(set \ {x}))

\* A stream id no live stream, recorder or field refers to.
FreshStream(S) ==
    1 + MaxOf(S.liveStreams \cup {S.stream}
                \cup { S.recorders[i].stream : i \in 1..Len(S.recorders) })

FreshContext(S) == 1 + MaxOf(S.openContexts \cup {S.audioContext})

\* MediaRecorder's stop steps: the recorder becomes inactive and a task is
\* queued that fires dataavailable and then stop.
StopSteps(S, r) ==
    [S EXCEPT !.recorders[r].state = "inactive",
              !.taskQueue = Append(@, r)]

RECURSIVE StopAll(_, _)
StopAll(S, rs) ==
    IF rs = {} THEN S
    ELSE LET r == CHOOSE x \in rs : \A y \in rs : x <= y
         IN  StopAll(StopSteps(S, r), rs \ {r})

\* stream.getTracks().forEach(track => track.stop()): the tracks end, and a
\* recorder still recording from the stream runs its stop steps.
StopTracks(S, s) ==
    StopAll([S EXCEPT !.liveStreams = @ \ {s}],
            { r \in 1..Len(S.recorders) :
                S.recorders[r].stream = s /\ S.recorders[r].state = "recording" })

\* if (this.stream) { ...track.stop()...; this.stream = null }
releaseStream(S) ==
    IF S.stream # 0 THEN [StopTracks(S, S.stream) EXCEPT !.stream = 0] ELSE S

stopLiveDisplay(S) ==
    [S EXCEPT !.isLive = FALSE,
              !.waveformDrawingId = FALSE,
              !.timerIntervalId = FALSE,
              !.openContexts = @ \ {S.audioContext},
              !.audioContext = 0,
              !.analyserNode = FALSE]

setupAudioVisualizer(S) ==
    IF S.stream = 0 \/ S.audioContext # 0 THEN S
    ELSE [S EXCEPT !.audioContext = FreshContext(S),
                   !.openContexts = @ \cup {FreshContext(S)},
                   !.analyserNode = TRUE]

\* The canvas and its 2d context exist; waveformDataArray is set with analyserNode.
drawLiveWaveform(S) ==
    IF ~S.analyserNode \/ ~S.isRecording
    THEN [S EXCEPT !.waveformDrawingId = FALSE]
    ELSE [S EXCEPT !.waveformDrawingId = TRUE]

\* A mutant: the elapsed-time interval is not started.
startLiveDisplayNoInterval(S) ==
    drawLiveWaveform(setupAudioVisualizer([S EXCEPT !.isLive = TRUE]))

startLiveDisplay(S) ==
    [drawLiveWaveform(setupAudioVisualizer([S EXCEPT !.isLive = TRUE]))
        EXCEPT !.timerIntervalId = TRUE]

-----------------------------------------------------------------------------
(* Status texts *)

StatusReady == "Ready to record"
StatusRequesting == "Requesting microphone access..."
StatusDenied == "Microphone permission denied. Please check browser settings and reload page."
StatusNotFound == "No microphone found. Please connect a microphone."
StatusBusy == "Cannot access microphone. It may be in use by another application."
StatusUnknown == "Error: message"
StatusProcessing == "Processing audio..."
StatusNoAudio == "No audio data captured. Please try again."
StatusConverting == "Converting audio..."
StatusProcessError == "Error processing recording. Please try again."
StatusGetting == "Getting transcription..."
StatusGenerating == "Transcription complete. Generating notes..."
StatusPolishing == "Polishing note..."
StatusElaborating == "Elaborating note..."
StatusComplete == "Notes complete. Ready for next recording."
StatusEmpty == "Transcription failed or returned empty."
StatusTranscriptionError == "Error getting transcription. Please try again."

-----------------------------------------------------------------------------
(* Recording controller *)

\* Errors as the catch block of startRecording reads them: name is
\* error.name ("Unknown" for a value that is no Error), message is
\* error.message; a message stands for every message that includes it.
Err(name, message) == [name |-> name, message |-> message]

Includes(message, needle) == message = needle

\* A mutant: a busy device is reported as a missing one.
statusForErrorBusyAsNotFound(error) ==
    IF error.name \in {"NotAllowedError", "PermissionDeniedError"}
    THEN StatusDenied
    ELSE IF \/ error.name \in {"NotFoundError", "NotReadableError", "AbortError"}
            \/ error.name = "DOMException"
    THEN StatusNotFound
    ELSE StatusUnknown

statusForError(error) ==
    IF error.name = "NotAllowedError" \/ error.name = "PermissionDeniedError"
    THEN StatusDenied
    ELSE IF \/ error.name = "NotFoundError"
            \/ (error.name = "DOMException"
                  /\ Includes(error.message, "Requested device not found"))
    THEN StatusNotFound
    ELSE IF \/ error.name = "NotReadableError"
            \/ error.name = "AbortError"
            \/ (error.name = "DOMException"
                  /\ Includes(error.message, "Failed to allocate audiosource"))
    THEN StatusBusy
    ELSE StatusUnknown

\* The catch block of startRecording.
startRecordingCatch(S, error) ==
    stopLiveDisplay(
        [releaseStream([S EXCEPT !.recordingStatus = statusForError(error),
                                 !.isRecording = FALSE])
            EXCEPT !.recordButton = FALSE])

\* startRecording up to its first await.
startRecording(S) ==
    LET S1 == releaseStream([S EXCEPT !.audioChunks = << >>])
    IN  IF S1.audioContext # 0 /\ S1.audioContext \in S1.openContexts
        THEN \* await this.audioContext.close()
             [S1 EXCEPT !.openContexts = @ \ {S1.audioContext},
                        !.starts.closing = @ + 1]
        ELSE [S1 EXCEPT !.recordingStatus = StatusRequesting,
                        !.starts.preferred = @ + 1]

\* startRecording resumed after audioContext.close().
startRecordingClosed(S) ==
    [S EXCEPT !.audioContext = 0,
              !.recordingStatus = StatusRequesting,
              !.starts.closing = @ - 1,
              !.starts.preferred = @ + 1]

\* startRecording from the assignment of this.stream on: a stream was
\* acquired; recorderError is << >>, or holds what both MediaRecorder
\* constructors threw.
startRecordingAcquired(S, recorderError) ==
    LET s == FreshStream(S)
        S1 == [S EXCEPT !.stream = s, !.liveStreams = @ \cup {s}]
        r == Len(S.recorders) + 1
    IN  IF recorderError # << >>
        THEN startRecordingCatch(S1, recorderError[1])
        ELSE startLiveDisplay(
                [S1 EXCEPT !.recorders = Append(@, [state |-> "recording", stream |-> s]),
                           !.mediaRecorder = r,
                           !.isRecording = TRUE,
                           !.recordButton = TRUE])

\* The preferred getUserMedia request settles: error is << >> on success.
startRecordingPreferred(S, error, recorderError) ==
    IF error = << >>
    THEN startRecordingAcquired([S EXCEPT !.starts.preferred = @ - 1], recorderError)
    ELSE [S EXCEPT !.starts.preferred = @ - 1, !.starts.relaxed = @ + 1]

\* The relaxed getUserMedia request settles.
startRecordingRelaxed(S, error, recorderError) ==
    IF error = << >>
    THEN startRecordingAcquired([S EXCEPT !.starts.relaxed = @ - 1], recorderError)
    ELSE startRecordingCatch([S EXCEPT !.starts.relaxed = @ - 1], error[1])

\* stop() of a recorder that is inactive throws InvalidStateError on some
\* platforms and does nothing on others: stopThrows tells which.
stopRecording(S, stopThrows) ==
    IF S.mediaRecorder # 0 /\ S.isRecording
    THEN LET S1 == IF S.recorders[S.mediaRecorder].state = "recording"
                   THEN StopSteps(S, S.mediaRecorder)
                   ELSE IF stopThrows THEN stopLiveDisplay(S) ELSE S
         IN  [S1 EXCEPT !.isRecording = FALSE,
                        !.recordButton = FALSE,
                        !.recordingStatus = StatusProcessing]
    ELSE IF ~S.isRecording THEN stopLiveDisplay(S) ELSE S

\* A mutant: the flag is not consulted.
toggleRecordingAlwaysStarts(S, stopThrows) == startRecording(S)

toggleRecording(S, stopThrows) ==
    IF ~S.isRecording THEN startRecording(S) ELSE stopRecording(S, stopThrows)

\* A run of the pipeline: processAudio and the getTranscription it awaits.
\* commits counts the calls of saveCurrentNoteToHistory the run has made.
NewRun ==
    [ pc |-> "reading", polish |-> "idle", elaborate |-> "idle", commits |-> 0 ]

\* processAudio up to its first await (a blob of chunks is never of size 0:
\* ondataavailable pushes only data of positive size).
processAudio(S, blob) ==
    [S EXCEPT !.recordingStatus = StatusConverting,
              !.runs = Append(@, NewRun)]

\* mediaRecorder.onstop
onstop(S) ==
    LET S1 == stopLiveDisplay(S)
        S2 == IF Len(S1.audioChunks) > 0
              THEN processAudio(S1, S1.audioChunks)
              ELSE [S1 EXCEPT !.recordingStatus = StatusNoAudio]
    IN  releaseStream(S2)

\* mediaRecorder.ondataavailable, with the size of event.data
ondataavailable(S, r, size) ==
    IF size > 0 THEN [S EXCEPT !.audioChunks = Append(@, r)] ELSE S

createNewNote(S, saveCurrent, stopThrows) ==
    LET S1 == IF saveCurrent THEN saveCurrentNoteToHistory(S) ELSE S
        S2 == [S1 EXCEPT
                !.currentNote = Note(S1.nextNoteId, << >>, << >>, << >>, << >>),
                !.nextNoteId = @ + 1,
                !.elaboratedNote = [html |-> ElaboratedPlaceholder, ph |-> TRUE],
                !.polishedNote = [html |-> PolishedPlaceholder, ph |-> TRUE],
                !.editorTitle = [text |-> TitlePlaceholder, ph |-> TRUE],
                !.recordingStatus = StatusReady]
        inactive == S2.mediaRecorder # 0
                      /\ S2.recorders[S2.mediaRecorder].state # "recording"
    IN  IF S2.isRecording
        THEN IF inactive /\ stopThrows
             THEN \* this.mediaRecorder.stop() throws: the handler ends here
                  S2
             ELSE saveDraft(
                    [(IF S2.mediaRecorder # 0 /\ ~inactive
                      THEN StopSteps(S2, S2.mediaRecorder) ELSE S2)
                        EXCEPT !.isRecording = FALSE, !.recordButton = FALSE],
                    TRUE)
        ELSE saveDraft(stopLiveDisplay(S2), TRUE)

-----------------------------------------------------------------------------
(* Title inference (getPolishedNote) *)

\* The lines of a text.
RECURSIVE SplitLines(_)
SplitLines(text) ==
    IF \E i \in 1..Len(text) : text[i] = "\n"
    THEN LET i == CHOOSE k \in 1..Len(text) :
                    text[k] = "\n" /\ \A j \in 1..(k - 1) : text[j] # "\n"
         IN  << SubSeq(text, 1, i - 1) >> \o SplitLines(SubSeq(text, i + 1, Len(text)))
    ELSE << text >>

\* The trimmed lines of the polished text.
TrimmedLines(text) ==
    LET ls == SplitLines(text) IN [i \in 1..Len(ls) |-> Trim(ls[i])]

RECURSIVE DropWhileHash(_)
DropWhileHash(s) ==
    IF s # << >> /\ Head(s) = "#" THEN DropWhileHash(Tail(s)) ELSE s

\* The line without its heading markers and the white space after them, trimmed.
headingText(line) ==
    LET rest == DropWhileHash(line)
    IN  Trim(IF Len(rest) < Len(line) /\ rest # << >> /\ IsSpace(Head(rest))
             THEN TrimStart(rest) ELSE line)

\* The characters the fallback strips from the start of a line.
IsDecoration(c) ==
    \/ c \in {"*", "_", Backquote, "#", "-", ">", "[", "]", "(", ".", ")"}
    \/ IsSpace(c)
    \/ IsDigit(c)

RECURSIVE DropDecoration(_)
DropDecoration(s) ==
    IF s # << >> /\ IsDecoration(Head(s)) THEN DropDecoration(Tail(s)) ELSE s

RECURSIVE DropTrailingMarks(_)
DropTrailingMarks(s) ==
    IF s # << >> /\ s[Len(s)] \in {"*", "_", Backquote, "#"}
    THEN DropTrailingMarks(SubSeq(s, 1, Len(s) - 1)) ELSE s

\* The line without its leading decoration and its trailing marks, trimmed.
potentialTitle(line) == Trim(DropTrailingMarks(DropDecoration(line)))

\* A mutant: the cut title has no ellipsis.
cutTitleNoEllipsis(t) == SubSeq(t, 1, Min(Len(t), maxLength))

\* The first maxLength characters, and an ellipsis when there were more.
cutTitle(t) ==
    SubSeq(t, 1, Min(Len(t), maxLength))
        \o (IF Len(t) > maxLength THEN << ".", ".", "." >> ELSE << >>)

\* The lines the first loop stops at, and those the second loop stops at.
HeadingLines(lines) ==
    { i \in 1..Len(lines) :
        lines[i] # << >> /\ Head(lines[i]) = "#" /\ headingText(lines[i]) # << >> }

FallbackLines(lines) ==
    { i \in 1..Len(lines) : Len(lines[i]) > 0 /\ Len(potentialTitle(lines[i])) > 3 }

First(set) == CHOOSE i \in set : \A j \in set : i <= j

\* The title the note is given from the polished text: << t >>, or << >>
\* when no line qualifies.
inferTitle(polishedText) ==
    LET lines == TrimmedLines(polishedText)
    IN  IF HeadingLines(lines) # {}
        THEN << headingText(lines[First(HeadingLines(lines))]) >>
        ELSE IF FallbackLines(lines) # {}
        THEN << cutTitle(potentialTitle(lines[First(FallbackLines(lines))])) >>
        ELSE << >>

\* The title statements of getPolishedNote.
setTitle(S, polishedText) ==
    IF inferTitle(polishedText) # << >>
    THEN [S EXCEPT !.editorTitle = [text |-> inferTitle(polishedText)[1], ph |-> FALSE]]
    ELSE IF Trim(S.editorTitle.text) = << >> \/ Trim(S.editorTitle.text) = TitlePlaceholder
    THEN [S EXCEPT !.editorTitle = [text |-> TitlePlaceholder, ph |-> TRUE]]
    ELSE S

-----------------------------------------------------------------------------
(* Transcription and enrichment pipeline *)

\* The FileReader of run i settles.
processAudioRead(S, i, ok) ==
    IF ok
    THEN \* getTranscription up to its await
         [S EXCEPT !.recordingStatus = StatusGetting, !.runs[i].pc = "transcribing"]
    ELSE [S EXCEPT !.recordingStatus = StatusProcessError, !.runs[i].pc = "failed"]

\* A mutant: the run ends without the commit.
getTranscriptionFinallySkipsCommit(S, i) ==
    [S EXCEPT !.runs[i].pc = "done"]

\* The finally block of getTranscription.
getTranscriptionFinally(S, i) ==
    [saveCurrentNoteToHistory(S) EXCEPT !.runs[i].commits = @ + 1,
                                         !.runs[i].pc = "done"]

\* A mutant: each enrichment call commits when it settles.
afterSettleCommitsPerCall(S, i) ==
    IF S.runs[i].polish = "settled" /\ S.runs[i].elaborate = "settled"
    THEN getTranscriptionFinally([S EXCEPT !.recordingStatus = StatusComplete], i)
    ELSE [saveCurrentNoteToHistory(S) EXCEPT !.runs[i].commits = @ + 1]

\* getTranscription resumed after Promise.all, once both calls have settled.
afterSettle(S, i) ==
    IF S.runs[i].polish = "settled" /\ S.runs[i].elaborate = "settled"
    THEN getTranscriptionFinally([S EXCEPT !.recordingStatus = StatusComplete], i)
    ELSE S

\* getPolishedNote up to its await.
getPolishedNote(S, i) ==
    IF Trim(S.currentNote.rawTranscription) = << >>
    THEN [S EXCEPT !.polishedNote = [html |-> PolishedPlaceholder, ph |-> TRUE],
                   !.runs[i].polish = "settled"]
    ELSE [S EXCEPT !.recordingStatus = StatusPolishing, !.runs[i].polish = "pending"]

\* getElaboratedNote up to its await.
getElaboratedNote(S, i) ==
    IF Trim(S.currentNote.rawTranscription) = << >>
    THEN [S EXCEPT !.elaboratedNote = [html |-> ElaboratedPlaceholder, ph |-> TRUE],
                   !.runs[i].elaborate = "settled"]
    ELSE [S EXCEPT !.recordingStatus = StatusElaborating, !.runs[i].elaborate = "pending"]

\* A mutant: the enrichment calls are issued whatever the transcription gave.
getTranscriptionEnrichesAnyway(S, i, response) ==
    LET S1 == [S EXCEPT
                 !.currentNote.rawTranscription =
                     IF response = << >> THEN @
                     ELSE Trim(@ \o << " " >> \o response[1]),
                 !.recordingStatus = StatusGenerating,
                 !.runs[i].pc = "enriching"]
    IN  afterSettle(getElaboratedNote(getPolishedNote(S1, i), i), i)

\* The transcription call of run i settles: response is << >> when the call
\* threw, and << text >> when it returned (text is << >> for no text).
getTranscription(S, i, response) ==
    IF response = << >>
    THEN getTranscriptionFinally(
            [S EXCEPT !.recordingStatus = StatusTranscriptionError,
                      !.polishedNote.html = InlineMessage("Error during transcription")], i)
    ELSE IF response[1] = << >>
    THEN getTranscriptionFinally(
            [S EXCEPT !.recordingStatus = StatusEmpty,
                      !.polishedNote.html = InlineMessage("Could not transcribe audio")], i)
    ELSE LET S1 == [S EXCEPT
                     !.currentNote.rawTranscription =
                         Trim(S.currentNote.rawTranscription \o << " " >> \o response[1]),
                     !.recordingStatus = StatusGenerating,
                     !.runs[i].pc = "enriching"]
         IN  afterSettle(getElaboratedNote(getPolishedNote(S1, i), i), i)

\* A mutant: the polish error lands in the other region as well.
getPolishedNoteCatchBothRegions(S) ==
    [S EXCEPT !.polishedNote.html = InlineMessage("Error during polishing"),
              !.elaboratedNote.html = InlineMessage("Error during polishing")]

\* The catch block of getPolishedNote.
getPolishedNoteCatch(S) ==
    [S EXCEPT !.polishedNote.html = InlineMessage("Error during polishing")]

\* A mutant: the elaboration error lands in the polished region.
getElaboratedNoteCatchPolishedRegion(S) ==
    [S EXCEPT !.polishedNote.html = InlineMessage("Error during elaboration")]

\* The catch block of getElaboratedNote.
getElaboratedNoteCatch(S) ==
    [S EXCEPT !.elaboratedNote.html = InlineMessage("Error during elaboration")]

\* A mutant: the result reaches the region and not the open note.
getPolishedNoteResponseRegionOnly(S, response) ==
    IF response = << >> \/ response[1] = << >>
    THEN getPolishedNoteCatch(S)
    ELSE scheduleAutoSave(setTitle(
            [S EXCEPT !.polishedNote =
                IF Trim(response[1]) # << >>
                THEN [html |-> MarkedParse(response[1]), ph |-> FALSE]
                ELSE [html |-> PolishedPlaceholder, ph |-> TRUE]], response[1]))

\* getPolishedNote after its await, without the bookkeeping of the run.
getPolishedNoteResponse(S, response) ==
    IF response = << >>
    THEN getPolishedNoteCatch(S)
    ELSE IF response[1] = << >>
    THEN [S EXCEPT !.polishedNote.html = InlineMessage("Polishing returned empty")]
    ELSE LET polishedText == response[1]
             htmlContent == MarkedParse(polishedText)
             S1 == [S EXCEPT !.polishedNote =
                        IF Trim(polishedText) # << >>
                        THEN [html |-> htmlContent, ph |-> FALSE]
                        ELSE [html |-> PolishedPlaceholder, ph |-> TRUE]]
             S2 == setTitle(S1, polishedText)
         IN  scheduleAutoSave([S2 EXCEPT !.currentNote.polishedNote = htmlContent])

\* getElaboratedNote after its await, without the bookkeeping of the run.
getElaboratedNoteResponse(S, response) ==
    IF response = << >>
    THEN getElaboratedNoteCatch(S)
    ELSE IF response[1] = << >>
    THEN [S EXCEPT !.elaboratedNote.html = InlineMessage("Elaboration returned empty")]
    ELSE LET elaboratedText == response[1]
             htmlContent == MarkedParse(elaboratedText)
             S1 == [S EXCEPT !.elaboratedNote =
                        IF Trim(elaboratedText) # << >>
                        THEN [html |-> htmlContent, ph |-> FALSE]
                        ELSE [html |-> ElaboratedPlaceholder, ph |-> TRUE]]
         IN  scheduleAutoSave([S1 EXCEPT !.currentNote.elaboratedNote = htmlContent])

\* The polish call of run i settles, and getTranscription resumes if the
\* elaborate call has settled too.
polishSettles(S, i, response) ==
    afterSettle([getPolishedNoteResponse(S, response) EXCEPT !.runs[i].polish = "settled"], i)

\* The elaborate call of run i settles.
elaborateSettles(S, i, response) ==
    afterSettle([getElaboratedNoteResponse(S, response) EXCEPT !.runs[i].elaborate = "settled"], i)

-----------------------------------------------------------------------------
(* The [contenteditable][placeholder] handlers (DOMContentLoaded) *)

Elements == {"title", "polished", "elaborated"}

Placeholder(el) ==
    IF el = "title" THEN TitlePlaceholder
    ELSE IF el = "polished" THEN PolishedPlaceholder ELSE ElaboratedPlaceholder

\* textContent of the title, innerText of a region, trimmed
currentText(S, el) ==
    IF el = "title" THEN Trim(S.editorTitle.text)
    ELSE IF el = "polished" THEN Trim(InnerText(S.polishedNote.html))
    ELSE Trim(InnerText(S.elaboratedNote.html))

\* The content (textContent or innerHTML) and the placeholder class of an element.
withElement(S, el, content, ph) ==
    IF el = "title" THEN [S EXCEPT !.editorTitle = [text |-> content, ph |-> ph]]
    ELSE IF el = "polished" THEN [S EXCEPT !.polishedNote = [html |-> content, ph |-> ph]]
    ELSE [S EXCEPT !.elaboratedNote = [html |-> content, ph |-> ph]]

content(S, el) ==
    IF el = "title" THEN S.editorTitle.text
    ELSE IF el = "polished" THEN S.polishedNote.html ELSE S.elaboratedNote.html

updatePlaceholderState(S, el) ==
    IF currentText(S, el) = << >>
    THEN withElement(S, el, Placeholder(el), TRUE)
    ELSE IF currentText(S, el) = Placeholder(el)
    THEN withElement(S, el, content(S, el), TRUE)
    ELSE withElement(S, el, content(S, el), FALSE)

onfocus(S, el) ==
    IF currentText(S, el) = Placeholder(el)
    THEN withElement(S, el, << >>, FALSE) ELSE S

onblur(S, el) == updatePlaceholderState(S, el)

\* The user's edit leaves value in the element; the input listener runs.
oninput(S, el, value) ==
    scheduleAutoSave(
        IF el = "title" THEN [S EXCEPT !.editorTitle.text = value]
        ELSE IF el = "polished" THEN [S EXCEPT !.polishedNote.html = value]
        ELSE [S EXCEPT !.elaboratedNote.html = value])

-----------------------------------------------------------------------------
(* Construction *)

\* The fields as their initialisers leave them, over the stored slots ls.
\* Note 0 stands for the null of currentNote, which the constructor replaces.
Fields(ls) ==
    [ currentNote |-> Note(0, << >>, << >>, << >>, << >>),
      editorTitle |-> [text |-> << >>, ph |-> FALSE],
      polishedNote |-> [html |-> << >>, ph |-> FALSE],
      elaboratedNote |-> [html |-> << >>, ph |-> FALSE],
      notesHistory |-> << >>, historyList |-> << >>,
      localStorage |-> ls, autoSaveTimeoutId |-> 0,
      timeouts |-> {}, sinceSchedule |-> 0,
      nextNoteId |-> 1, gestures |-> 0,
      isRecording |-> FALSE, stream |-> 0, mediaRecorder |-> 0,
      audioChunks |-> << >>, audioContext |-> 0,
      analyserNode |-> FALSE, waveformDrawingId |-> FALSE,
      timerIntervalId |-> FALSE, recordButton |-> FALSE,
      isLive |-> FALSE, recordingStatus |-> "",
      liveStreams |-> {}, openContexts |-> {},
      recorders |-> << >>, taskQueue |-> << >>,
      starts |-> [closing |-> 0, preferred |-> 0, relaxed |-> 0],
      runs |-> << >> ]

constructor(ls) ==
    LET S1 == renderHistory(loadHistory(Fields(ls)))
        S2 == IF draftLoaded(S1) THEN loadDraft(S1) ELSE createNewNote(S1, FALSE, FALSE)
    IN  [S2 EXCEPT !.recordingStatus = StatusReady]

\* The DOMContentLoaded listener: the controller is constructed, then the
\* placeholder state of each editable element is brought up to date.
DOMContentLoaded(ls) ==
    updatePlaceholderState(
        updatePlaceholderState(
            updatePlaceholderState(constructor(ls), "title"), "polished"), "elaborated")

\* What an earlier session left in storage: a History of n notes, most
\* recent first, and no Draft or the Draft of its most recent note.
StoredNote(k) == Note(StoredIdBase + k, << "s" >>, << "h" >>, << >>, << >>)
StoredHistory(n) == [i \in 1..n |-> StoredNote(n + 1 - i)]
Slots(history, draft) ==
    [history |-> history, draft |-> draft, unreadable |-> {}, writable |-> TRUE]
StoredSlots ==
    { Slots(<< StoredHistory(MAX_HISTORY_ITEMS) >>, << >>),
      Slots(<< StoredHistory(MAX_HISTORY_ITEMS - 1) >>,
            << StoredNote(MAX_HISTORY_ITEMS - 1) >>) }

\* A storage that fails: slots that are unset or hold what an earlier
\* session stored, any of them unreadable, and writes that throw or not.
FailingSlots ==
    { [history |-> h, draft |-> d, unreadable |-> u, writable |-> w] :
        h \in { << >>, << StoredHistory(1) >> },
        d \in { << >>, << StoredNote(1) >> },
        u \in SUBSET {"history", "draft"},
        w \in BOOLEAN }

-----------------------------------------------------------------------------
(* Inputs *)

TitleInputs == { << "t" >>, << " " >> }
RegionInputs == { << "x" >>, << >> }
Inputs(el) == IF el = "title" THEN TitleInputs ELSE RegionInputs

\* What a remote call gives: << >> when it throws, << text >> when it returns.
TranscriptionResponses ==
    { << >>, << << >> >>, << << "h" >> >>, << << "h", "\n" >> >>, << << " " >> >> }
PolishResponses ==
    { << >>, << << >> >>, << << "#", " ", "T" >> >>, << << " " >> >> }
ElaborateResponses == { << >>, << << "e" >> >> }

\* The polished texts the title is inferred from: up to MaxPrefix
\* characters of markup, white space and line breaks, a run of letters that
\* is empty, around the three characters a title needs or around maxLength,
\* and what follows it.
Rep(c, n) == [i \in 1..n |-> c]
TitleTexts ==
    { pre \o Rep("a", n) \o post :
        pre \in UNION { [1..k -> {"#", " ", "*", "1", "\n"}] : k \in 0..MaxPrefix },
        n \in {0, 1, 3, 4, maxLength, maxLength + 1},
        post \in { << >>, << "*" >>, << "\n", "#", " ", "b" >>, << "\n", "#", "b" >> } }

AcquireErrors ==
    { Err("NotAllowedError", "other"), Err("PermissionDeniedError", "other"),
      Err("NotFoundError", "other"), Err("DOMException", "Requested device not found"),
      Err("NotReadableError", "other"), Err("AbortError", "other"),
      Err("DOMException", "Failed to allocate audiosource"),
      Err("DOMException", "other"), Err("TypeError", "other"),
      Err("Unknown", "other") }
RecorderErrors == { << >>, << Err("NotSupportedError", "other") >> }

\* The items of the history panel the user picks among: the topmost ones.
Pickable(S) ==
    { S.historyList[i] : i \in 1..Min(MaxPick, Len(S.historyList)) }

-----------------------------------------------------------------------------
(* Actions: one task each *)

\* A run that has ended is no longer part of the state.
IsOver(run) == run.pc \in {"done", "failed"}
Retire(S) == [S EXCEPT !.runs = SelectSeq(@, LAMBDA run : ~IsOver(run))]

Gesture(S) == [S EXCEPT !.gestures = @ + 1]

\* A click on the record button.
ClickRecord ==
    \E stopThrows \in BOOLEAN :
        IF isRecording
        THEN Becomes(toggleRecording(St, stopThrows))
        ELSE gestures < MaxGestures /\ Becomes(Gesture(toggleRecording(St, stopThrows)))

\* A click on the new-note button.
ClickNew ==
    /\ gestures < MaxGestures
    /\ \E stopThrows \in BOOLEAN : Becomes(Gesture(createNewNote(St, TRUE, stopThrows)))

\* A click on an item of the history panel (handleHistoryClick).
ClickHistoryItem ==
    \E id \in Pickable(St) : Becomes(loadNote(St, id))

\* The user edits an element: it takes the focus, and the edit leaves value
\* in it.
Edit ==
    \E el \in Elements : \E value \in Inputs(el) :
        /\ gestures < MaxGestures
        /\ value # content(onfocus(St, el), el)
        /\ Becomes(Gesture(oninput(onfocus(St, el), el, value)))

\* An element loses the focus.
Blur ==
    \E el \in Elements : Becomes(onblur(onfocus(St, el), el))

AdvanceTime ==
    /\ timeouts # {}
    /\ \A t \in timeouts : t.remaining > 0
    /\ LET dt == CHOOSE d \in {TimeStep} \cup { t.remaining : t \in timeouts } :
                    \A e \in {TimeStep} \cup { t.remaining : t \in timeouts } : d <= e
       IN  /\ timeouts' = { [t EXCEPT !.remaining = @ - dt] : t \in timeouts }
           /\ sinceSchedule' = sinceSchedule + dt
    /\ UNCHANGED << currentNote, editorTitle, polishedNote, elaboratedNote,
                    notesHistory, historyList, localStorage, autoSaveTimeoutId,
                    nextNoteId, gestures, isRecording, stream, mediaRecorder,
                    audioChunks, audioContext, analyserNode, waveformDrawingId,
                    timerIntervalId, recordButton, isLive, recordingStatus,
                    liveStreams, openContexts, recorders, taskQueue, starts, runs >>

\* A timer set by scheduleAutoSave comes due: its callback is saveDraft().
TimeoutFires ==
    \E t \in timeouts :
        /\ t.remaining = 0
        /\ Becomes(saveDraft(SettleClock([St EXCEPT !.timeouts = @ \ {t}]), FALSE))

\* The frame requested by drawLiveWaveform.
AnimationFrame ==
    /\ waveformDrawingId
    /\ Becomes(drawLiveWaveform(St))

\* The task a recorder's stop steps queued: dataavailable, then stop.
RecorderStopped ==
    /\ taskQueue # << >>
    /\ \E size \in {0, 1} :
        Becomes(onstop(ondataavailable([St EXCEPT !.taskQueue = Tail(@)],
                                       Head(taskQueue), size)))

ContextClosed ==
    /\ starts.closing > 0
    /\ Becomes(startRecordingClosed(St))

PreferredSettles ==
    /\ starts.preferred > 0
    /\ \E error \in {<< >>, << Err("OverconstrainedError", "other") >>} :
       \E recorderError \in RecorderErrors :
        Becomes(startRecordingPreferred(St, error, recorderError))

RelaxedSettles ==
    /\ starts.relaxed > 0
    /\ \E error \in {<< >>} \cup { << e >> : e \in AcquireErrors } :
       \E recorderError \in RecorderErrors :
        Becomes(startRecordingRelaxed(St, error, recorderError))

ReaderSettles ==
    \E i \in 1..Len(runs) : \E ok \in BOOLEAN :
        /\ runs[i].pc = "reading"
        /\ Becomes(Retire(processAudioRead(St, i, ok)))

TranscriptionSettles ==
    \E i \in 1..Len(runs) : \E response \in TranscriptionResponses :
        /\ runs[i].pc = "transcribing"
        /\ Becomes(Retire(getTranscription(St, i, response)))

PolishSettles ==
    \E i \in 1..Len(runs) : \E response \in PolishResponses :
        /\ runs[i].polish = "pending"
        /\ Becomes(Retire(polishSettles(St, i, response)))

ElaborateSettles ==
    \E i \in 1..Len(runs) : \E response \in ElaborateResponses :
        /\ runs[i].elaborate = "pending"
        /\ Becomes(Retire(elaborateSettles(St, i, response)))

Next ==
    \/ ClickRecord
    \/ ClickNew
    \/ ClickHistoryItem
    \/ Edit
    \/ Blur
    \/ AdvanceTime
    \/ TimeoutFires
    \/ AnimationFrame
    \/ RecorderStopped
    \/ ContextClosed
    \/ PreferredSettles
    \/ RelaxedSettles
    \/ ReaderSettles
    \/ TranscriptionSettles
    \/ PolishSettles
    \/ ElaborateSettles

\* A first session: nothing is stored.
Init == StartsAs(DOMContentLoaded(Slots(<< >>, << >>)))

Spec == Init /\ [][Next]_vars

\* A later session: an earlier one left a History at or near its cap, and
\* the user works on notes without recording.
InitStored == \E ls \in StoredSlots : StartsAs(DOMContentLoaded(ls))

NextNotes ==
    \/ ClickNew
    \/ ClickHistoryItem
    \/ Edit
    \/ Blur
    \/ AdvanceTime
    \/ TimeoutFires

SpecStored == InitStored /\ [][NextNotes]_vars

\* A session over a storage that fails.
InitFailing == \E ls \in FailingSlots : StartsAs(DOMContentLoaded(ls))

SpecFailing == InitFailing /\ [][NextNotes]_vars

\* A session in which a first dictation has been transcribed and its two
\* enrichment calls are in flight; the polish call returns any of TitleTexts.
Dictated ==
    LET S0 == DOMContentLoaded(Slots(<< >>, << >>))
        S1 == Gesture(toggleRecording(S0, FALSE))
        S2 == startRecordingPreferred(S1, << >>, << >>)
        S3 == toggleRecording(S2, FALSE)
        S4 == onstop(ondataavailable([S3 EXCEPT !.taskQueue = Tail(@)],
                                     Head(S3.taskQueue), 1))
        S5 == Retire(processAudioRead(S4, 1, TRUE))
    IN  Retire(getTranscription(S5, 1, << << "h" >> >>))

InitTitle == StartsAs(Dictated)

PolishSettlesTitle ==
    \E i \in 1..Len(runs) : \E text \in TitleTexts :
        /\ runs[i].polish = "pending"
        /\ Becomes(Retire(polishSettles(St, i, << text >>)))

NextTitle ==
    \/ PolishSettlesTitle
    \/ ElaborateSettles
    \/ Edit
    \/ AdvanceTime
    \/ TimeoutFires

SpecTitle == InitTitle /\ [][NextTitle]_vars

-----------------------------------------------------------------------------
(* Properties *)

\* C1: starting from an empty History, no entry of the History is
\* effectively empty: every entry has a title, a raw transcript, a polished
\* content or an elaborated content that is not blank after trimming.
NoEmptyEntry ==
    \A i \in 1..Len(notesHistory) :
        \/ Trim(notesHistory[i].title) # << >>
        \/ Trim(notesHistory[i].rawTranscription) # << >>
        \/ Trim(notesHistory[i].polishedNote) # << >>
        \/ Trim(notesHistory[i].elaboratedNote) # << >>

\* The History holds the first note, the second note was created and left
\* empty, and the first one was loaded back: the commit of the empty note
\* that loadNote attempted left no entry.
EmptyNoteSkipped ==
    /\ nextNoteId = 3
    /\ currentNote.id = 1
    /\ Len(notesHistory) = 1
    /\ notesHistory[1].id = 1

\* C2: the History never holds more than MAX_HISTORY_ITEMS entries, and a
\* commit of a note with a new id to a full History puts the note in front,
\* drops exactly the last entry and keeps the others in their order.
HistoryCapped ==
    /\ Len(notesHistory) <= MAX_HISTORY_ITEMS
    /\ LET committed == updateCurrentNoteFromDOM(St).currentNote
           after == saveCurrentNoteToHistory(St).notesHistory
       IN  /\ Len(after) <= MAX_HISTORY_ITEMS
           /\ ( /\ after # notesHistory
                /\ Len(notesHistory) = MAX_HISTORY_ITEMS
                /\ \A i \in 1..Len(notesHistory) : notesHistory[i].id # committed.id )
              => after = << committed >> \o SubSeq(notesHistory, 1, MAX_HISTORY_ITEMS - 1)

\* A note created in this session sits in front of a full History, and the
\* oldest stored note is gone.
OldestDropped ==
    /\ Len(notesHistory) = MAX_HISTORY_ITEMS
    /\ notesHistory[1].id < StoredIdBase
    /\ notesHistory[MAX_HISTORY_ITEMS].id = StoredIdBase + 2

\* C3: no two entries of the History share an id, and a commit of a note
\* whose id the History holds puts the new version at index 0, removes the
\* old entry and leaves the other entries, and the length, as they were.
CommitReplaces ==
    /\ \A i, j \in 1..Len(notesHistory) :
          notesHistory[i].id = notesHistory[j].id => i = j
    /\ LET committed == updateCurrentNoteFromDOM(St).currentNote
           after == saveCurrentNoteToHistory(St).notesHistory
       IN  ( /\ \E i \in 1..Len(notesHistory) : notesHistory[i].id = committed.id
             /\ \/ Trim(committed.title) # << >>
                \/ Trim(committed.rawTranscription) # << >>
                \/ Trim(committed.polishedNote) # << >>
                \/ Trim(committed.elaboratedNote) # << >> )
           => /\ Len(after) = Len(notesHistory)
              /\ after[1] = committed
              /\ Tail(after) =
                    SelectSeq(notesHistory, LAMBDA n : n.id # committed.id)

\* The second stored note was loaded, edited and committed again: its new
\* version is in front of the note that was in front of it.
ReplacedAtFront ==
    /\ Len(notesHistory) = MAX_HISTORY_ITEMS - 1
    /\ notesHistory[1].id = StoredIdBase + MAX_HISTORY_ITEMS - 2
    /\ notesHistory[1].title = << "t" >>
    /\ notesHistory[2].id = StoredIdBase + MAX_HISTORY_ITEMS - 1

\* C4: a run whose transcription returned text commits the open note to the
\* History exactly once, and not before both the polish call and the
\* elaborate call have settled, whatever each of them gives.
CommitOnceAfterBoth ==
    \A i \in 1..Len(runs) :
        /\ runs[i].pc = "enriching" =>
              /\ runs[i].commits = 0
              /\ "pending" \in {runs[i].polish, runs[i].elaborate}
        /\ runs[i].pc = "transcribing" =>
              \A response \in TranscriptionResponses :
                  (response # << >> /\ response[1] # << >>) =>
                      LET S2 == getTranscription(St, i, response)
                      IN  IF "pending" \in {S2.runs[i].polish, S2.runs[i].elaborate}
                          THEN /\ S2.runs[i].commits = 0
                               /\ S2.notesHistory = notesHistory
                          ELSE /\ S2.runs[i].commits = 1
                               /\ S2.runs[i].pc = "done"
        /\ runs[i].polish = "pending" =>
              \A response \in PolishResponses :
                  LET S2 == polishSettles(St, i, response)
                  IN  IF runs[i].elaborate = "pending"
                      THEN /\ S2.runs[i].commits = 0
                           /\ S2.runs[i].pc = "enriching"
                           /\ S2.notesHistory = notesHistory
                           /\ S2.localStorage.history = localStorage.history
                      ELSE /\ S2.runs[i].commits = 1
                           /\ S2.runs[i].pc = "done"
        /\ runs[i].elaborate = "pending" =>
              \A response \in ElaborateResponses :
                  LET S2 == elaborateSettles(St, i, response)
                  IN  IF runs[i].polish = "pending"
                      THEN /\ S2.runs[i].commits = 0
                           /\ S2.runs[i].pc = "enriching"
                           /\ S2.notesHistory = notesHistory
                           /\ S2.localStorage.history = localStorage.history
                      ELSE /\ S2.runs[i].commits = 1
                           /\ S2.runs[i].pc = "done"

\* The polish call failed, the elaborate call succeeded, and the run has
\* ended with the note committed.
CommittedAfterPolishFailure ==
    /\ runs = << >>
    /\ recordingStatus = StatusComplete
    /\ polishedNote.html = InlineMessage("Error during polishing")
    /\ elaboratedNote = [html |-> MarkedParse(<< "e" >>), ph |-> FALSE]
    /\ Len(notesHistory) = 1
    /\ notesHistory[1].rawTranscription = << "h" >>
    /\ notesHistory[1].elaboratedNote = MarkedParse(<< "e" >>)

\* C5: a failure of one enrichment call leaves the other call's results as
\* they are without it.  When polish fails its region shows the error, and
\* the elaborated region, the note's elaborated field and the title are
\* untouched and end as they do when polish succeeds; when elaborate fails,
\* the same holds of the polished region, the polished field and the title.
EnrichmentsIndependent ==
    \A i \in 1..Len(runs) :
        /\ runs[i].polish = "pending" =>
              LET failed == polishSettles(St, i, << >>)
              IN  /\ failed.polishedNote.html = InlineMessage("Error during polishing")
                  /\ failed.elaboratedNote = elaboratedNote
                  /\ failed.editorTitle = editorTitle
                  /\ \A ok \in PolishResponses \ {<< >>} :
                        LET succeeded == polishSettles(St, i, ok)
                        IN  /\ failed.elaboratedNote = succeeded.elaboratedNote
                            /\ failed.currentNote.elaboratedNote =
                                  succeeded.currentNote.elaboratedNote
                            /\ runs[i].elaborate = "pending" =>
                                  \A r \in ElaborateResponses :
                                      LET f == elaborateSettles(failed, i, r)
                                          g == elaborateSettles(succeeded, i, r)
                                      IN  /\ f.elaboratedNote = g.elaboratedNote
                                          /\ f.currentNote.elaboratedNote =
                                                g.currentNote.elaboratedNote
        /\ runs[i].elaborate = "pending" =>
              LET failed == elaborateSettles(St, i, << >>)
              IN  /\ failed.elaboratedNote.html = InlineMessage("Error during elaboration")
                  /\ failed.polishedNote = polishedNote
                  /\ failed.editorTitle = editorTitle
                  /\ \A ok \in ElaborateResponses \ {<< >>} :
                        LET succeeded == elaborateSettles(St, i, ok)
                        IN  /\ failed.polishedNote = succeeded.polishedNote
                            /\ failed.editorTitle = succeeded.editorTitle
                            /\ failed.currentNote.polishedNote =
                                  succeeded.currentNote.polishedNote
                            /\ runs[i].polish = "pending" =>
                                  \A r \in PolishResponses :
                                      LET f == polishSettles(failed, i, r)
                                          g == polishSettles(succeeded, i, r)
                                      IN  /\ f.polishedNote = g.polishedNote
                                          /\ f.editorTitle = g.editorTitle
                                          /\ f.currentNote.polishedNote =
                                                g.currentNote.polishedNote

\* The elaborate call failed after the polish call had succeeded: the
\* polished region and the inferred title stand beside the error.
ElaborateFailedBesidePolished ==
    /\ runs = << >>
    /\ elaboratedNote.html = InlineMessage("Error during elaboration")
    /\ polishedNote = [html |-> MarkedParse(<< "#", " ", "T" >>), ph |-> FALSE]
    /\ editorTitle = [text |-> << "T" >>, ph |-> FALSE]
    /\ currentNote.polishedNote = MarkedParse(<< "#", " ", "T" >>)

\* C6: when a recording stops having captured no audio, the status is the
\* no-audio message, no transcription run is started and the History is
\* unchanged.
NoAudioNoTranscription ==
    taskQueue # << >> =>
        LET S2 == onstop(ondataavailable([St EXCEPT !.taskQueue = Tail(@)],
                                         Head(taskQueue), 0))
        IN  /\ S2.recordingStatus = StatusNoAudio
            /\ S2.runs = runs
            /\ S2.notesHistory = notesHistory

\* C7 as stated: on a fresh empty note, a run whose transcription returns a
\* text t and whose polish and elaborate calls return non-empty text ends
\* with one more History entry, in front, whose raw transcript is t and whose
\* polished and elaborated fields are non-empty, and with the status that
\* invites the next recording.
FreshNoteGainsEntry ==
    \A i \in 1..Len(runs) :
        ( /\ runs[i].pc = "transcribing"
          /\ currentNote = Note(currentNote.id, << >>, << >>, << >>, << >>)
          /\ editorTitle = [text |-> TitlePlaceholder, ph |-> TRUE]
          /\ polishedNote = [html |-> PolishedPlaceholder, ph |-> TRUE]
          /\ elaboratedNote = [html |-> ElaboratedPlaceholder, ph |-> TRUE]
          /\ \A k \in 1..Len(notesHistory) : notesHistory[k].id # currentNote.id )
        => \A t \in TranscriptionResponses, p \in PolishResponses, e \in ElaborateResponses :
             ( /\ t # << >> /\ t[1] # << >>
               /\ p # << >> /\ p[1] # << >>
               /\ e # << >> /\ e[1] # << >> )
             => LET S1 == getTranscription(St, i, t)
                    S3 == IF S1.runs[i].polish = "pending"
                          THEN elaborateSettles(polishSettles(S1, i, p), i, e)
                          ELSE S1
                IN  /\ Len(S3.notesHistory) = Len(notesHistory) + 1
                    /\ Tail(S3.notesHistory) = notesHistory
                    /\ S3.notesHistory[1].id = currentNote.id
                    /\ S3.notesHistory[1].rawTranscription = t[1]
                    /\ S3.notesHistory[1].polishedNote # << >>
                    /\ S3.notesHistory[1].elaboratedNote # << >>
                    /\ S3.recordingStatus = StatusComplete

\* C7, amended: when t, the polish text and the elaborate text are not
\* blank, the run ends with one more History entry, in front, whose raw
\* transcript is t without its leading and trailing white space and whose
\* polished and elaborated fields are non-empty, and with the status that
\* invites the next recording, in whichever order the two calls settle.
FreshNoteGainsTrimmedEntry ==
    \A i \in 1..Len(runs) :
        ( /\ runs[i].pc = "transcribing"
          /\ currentNote = Note(currentNote.id, << >>, << >>, << >>, << >>)
          /\ editorTitle = [text |-> TitlePlaceholder, ph |-> TRUE]
          /\ polishedNote = [html |-> PolishedPlaceholder, ph |-> TRUE]
          /\ elaboratedNote = [html |-> ElaboratedPlaceholder, ph |-> TRUE]
          /\ \A k \in 1..Len(notesHistory) : notesHistory[k].id # currentNote.id )
        => \A t \in TranscriptionResponses, p \in PolishResponses, e \in ElaborateResponses :
             ( /\ t # << >> /\ Trim(t[1]) # << >>
               /\ p # << >> /\ Trim(p[1]) # << >>
               /\ e # << >> /\ Trim(e[1]) # << >> )
             => LET S1 == getTranscription(St, i, t)
                    polishFirst == elaborateSettles(polishSettles(S1, i, p), i, e)
                    elaborateFirst == polishSettles(elaborateSettles(S1, i, e), i, p)
                IN  \A S3 \in {polishFirst, elaborateFirst} :
                        /\ Len(S3.notesHistory) = Len(notesHistory) + 1
                        /\ Tail(S3.notesHistory) = notesHistory
                        /\ S3.notesHistory[1].id = currentNote.id
                        /\ S3.notesHistory[1].rawTranscription = Trim(t[1])
                        /\ S3.notesHistory[1].polishedNote # << >>
                        /\ S3.notesHistory[1].elaboratedNote # << >>
                        /\ S3.recordingStatus = StatusComplete

\* The first note was dictated, polished and elaborated, and is the one
\* entry of the History.
DictatedNoteCommitted ==
    /\ runs = << >>
    /\ recordingStatus = StatusComplete
    /\ notesHistory =
          << Note(1, << "T" >>, << "h" >>,
                  MarkedParse(<< "#", " ", "T" >>), MarkedParse(<< "e" >>)) >>

\* C8: loading an entry of the History, or the saved Draft, twice in a row
\* leaves the title, the two regions and their placeholder flags as loading
\* it once leaves them.
LoadTwiceAsOnce ==
    LET Screen(S) == << S.editorTitle, S.polishedNote, S.elaboratedNote >>
    IN  /\ \A k \in 1..Len(notesHistory) :
              LET id == notesHistory[k].id
              IN  Screen(loadNote(loadNote(St, id), id)) = Screen(loadNote(St, id))
        /\ Screen(loadDraft(loadDraft(St))) = Screen(loadDraft(St))

\* C9: the draft save is debounced on the trailing edge.  At most one timer
\* is pending, it is the one the controller holds, and it comes due
\* AUTO_SAVE_DELAY after the last scheduling; an edit saves nothing itself
\* and leaves one timer with the whole delay to run, whatever was pending;
\* the timer that comes due saves the draft once and leaves none pending.
DebounceTrailing ==
    /\ Cardinality(timeouts) <= 1
    /\ \A t \in timeouts :
          /\ t.id = autoSaveTimeoutId
          /\ t.remaining = AUTO_SAVE_DELAY - sinceSchedule
          /\ t.remaining = 0 =>
                LET S2 == saveDraft(SettleClock([St EXCEPT !.timeouts = @ \ {t}]), FALSE)
                IN  /\ S2.timeouts = {}
                    /\ S2.autoSaveTimeoutId = 0
                    /\ S2.localStorage.draft = << updateCurrentNoteFromDOM(St).currentNote >>
    /\ \A el \in Elements : \A value \in Inputs(el) :
          LET S2 == oninput(onfocus(St, el), el, value)
          IN  /\ S2.timeouts = { [id |-> S2.autoSaveTimeoutId, remaining |-> AUTO_SAVE_DELAY] }
              /\ S2.autoSaveTimeoutId # 0
              /\ S2.localStorage.draft = localStorage.draft

\* Two edits were made and no draft was saved between them; the one timer
\* has come due, a whole delay after it was last set, and the stored draft
\* still holds neither edit.
TimerDueAfterTwoEdits ==
    /\ gestures = 2
    /\ editorTitle.text = << "t" >>
    /\ polishedNote.html = << "x" >>
    /\ sinceSchedule = AUTO_SAVE_DELAY
    /\ timeouts = { [id |-> autoSaveTimeoutId, remaining |-> 0] }
    /\ localStorage.draft = << Note(1, << >>, << >>, << >>, << >>) >>

\* C10: when the relaxed request fails too, startRecording ends idle (not
\* recording, no stream held, the live display stopped, the button not
\* marked) with the status of the error's class, one of four messages that
\* differ from each other; its catch block takes every error.
AcquisitionFailureIdle ==
    /\ Cardinality({StatusDenied, StatusNotFound, StatusBusy, StatusUnknown}) = 4
    /\ starts.relaxed > 0 =>
          \A e \in AcquireErrors : \A r \in RecorderErrors :
              LET S2 == startRecordingRelaxed(St, << e >>, r)
              IN  /\ ~S2.isRecording
                  /\ S2.stream = 0
                  /\ ~S2.isLive
                  /\ ~S2.timerIntervalId
                  /\ ~S2.waveformDrawingId
                  /\ S2.audioContext = 0
                  /\ ~S2.recordButton
                  /\ S2.starts.relaxed = starts.relaxed - 1
                  /\ S2.recordingStatus =
                        IF e.name \in {"NotAllowedError", "PermissionDeniedError"}
                        THEN StatusDenied
                        ELSE IF \/ e.name = "NotFoundError"
                                \/ e = Err("DOMException", "Requested device not found")
                        THEN StatusNotFound
                        ELSE IF \/ e.name \in {"NotReadableError", "AbortError"}
                                \/ e = Err("DOMException", "Failed to allocate audiosource")
                        THEN StatusBusy
                        ELSE StatusUnknown

\* Both requests of the one start were rejected, the second because the
\* device is busy: the controller is idle and says so.
AcquisitionFailedBusy ==
    /\ recordingStatus = StatusBusy
    /\ gestures = 1
    /\ starts = [closing |-> 0, preferred |-> 0, relaxed |-> 0]
    /\ recorders = << >>
    /\ ~isRecording
    /\ stream = 0
    /\ ~isLive
    /\ ~recordButton

\* C11 as stated: when a request for the device succeeds, the preferred one
\* or the relaxed one made after the preferred one was rejected, the start
\* ends in Recording: isRecording is set, a live stream and a recorder
\* recording from it are held, the button is marked and the elapsed-time
\* interval runs.
StartLeavesRecording ==
    LET Recording(S) ==
            /\ S.isRecording
            /\ S.stream # 0
            /\ S.stream \in S.liveStreams
            /\ S.mediaRecorder # 0
            /\ S.recorders[S.mediaRecorder] = [state |-> "recording", stream |-> S.stream]
            /\ S.recordButton
            /\ S.timerIntervalId
    IN  /\ starts.preferred > 0 =>
              \A r \in RecorderErrors : Recording(startRecordingPreferred(St, << >>, r))
        /\ starts.relaxed > 0 =>
              \A r \in RecorderErrors : Recording(startRecordingRelaxed(St, << >>, r))

\* C11, amended: the start ends in Recording when a request for the device
\* succeeds and a recorder is constructed on the stream; a rejection of the
\* preferred request, whatever the error, only leads to the relaxed request.
StartLeavesRecordingWithRecorder ==
    LET Recording(S) ==
            /\ S.isRecording
            /\ S.stream # 0
            /\ S.stream \in S.liveStreams
            /\ S.mediaRecorder # 0
            /\ S.recorders[S.mediaRecorder] = [state |-> "recording", stream |-> S.stream]
            /\ S.recordButton
            /\ S.timerIntervalId
    IN  /\ starts.preferred > 0 =>
              /\ Recording(startRecordingPreferred(St, << >>, << >>))
              /\ \A e \in AcquireErrors : \A r \in RecorderErrors :
                    startRecordingPreferred(St, << e >>, r) =
                        [St EXCEPT !.starts.preferred = @ - 1, !.starts.relaxed = @ + 1]
        /\ starts.relaxed > 0 =>
              Recording(startRecordingRelaxed(St, << >>, << >>))

\* The one start has ended in Recording, with the live display on.
RecordingStarted ==
    /\ gestures = 1
    /\ starts = [closing |-> 0, preferred |-> 0, relaxed |-> 0]
    /\ isRecording
    /\ stream = 1
    /\ mediaRecorder = 1
    /\ recorders = << [state |-> "recording", stream |-> 1] >>
    /\ recordButton
    /\ timerIntervalId
    /\ isLive

\* C12: a stop issued while recording, the recorder having captured audio,
\* leads to exactly one pipeline run, on a blob of the chunks of that
\* recording and no others, with the capture stream torn down (tracks
\* stopped, reference cleared) and the audio-analysis resources released; a
\* stop issued while not recording starts no pipeline.
StopRunsPipelineOnce ==
    /\ ( isRecording /\ mediaRecorder # 0 /\ taskQueue = << >>
         /\ recorders[mediaRecorder].state = "recording" ) =>
          \A stopThrows \in BOOLEAN :
              LET S1 == stopRecording(St, stopThrows)
                  S2 == ondataavailable([S1 EXCEPT !.taskQueue = Tail(@)],
                                        Head(S1.taskQueue), 1)
                  S3 == onstop(S2)
              IN  /\ S1.taskQueue = << mediaRecorder >>
                  /\ S2.audioChunks = << mediaRecorder >>
                  /\ Len(S3.runs) = Len(runs) + 1
                  /\ S3.stream = 0
                  /\ recorders[mediaRecorder].stream \notin S3.liveStreams
                  /\ S3.audioContext = 0
                  /\ S3.openContexts = {}
                  /\ ~S3.analyserNode
    /\ ~isRecording =>
          \A stopThrows \in BOOLEAN :
              LET S1 == stopRecording(St, stopThrows)
              IN  S1.runs = runs /\ S1.taskQueue = taskQueue

\* C13: while isRecording is set, a click on the record button starts
\* nothing: no request for the device, no recorder, the captured chunks
\* kept; it takes the stop path and recording ends.
ToggleWhileRecordingStops ==
    isRecording =>
        \A stopThrows \in BOOLEAN :
            LET S2 == toggleRecording(St, stopThrows)
            IN  /\ S2.starts = starts
                /\ Len(S2.recorders) = Len(recorders)
                /\ S2.liveStreams \subseteq liveStreams
                /\ S2.audioChunks = audioChunks
                /\ S2.recordingStatus = StatusProcessing
                /\ ~S2.isRecording
                /\ ~S2.recordButton

\* The second click on the record button has stopped the one recording:
\* its recorder is inactive and its events are queued.
StoppedByToggle ==
    /\ gestures = 1
    /\ ~isRecording
    /\ recordingStatus = StatusProcessing
    /\ recorders = << [state |-> "inactive", stream |-> 1] >>
    /\ taskQueue = << 1 >>
    /\ starts = [closing |-> 0, preferred |-> 0, relaxed |-> 0]

\* C14: in the step in which recording stops, by a stop, by an error of a
\* start or by a new note, the elapsed-time interval and the animation frame
\* are cancelled and the audio context is released: no state that is not
\* recording holds any of them.
ReleasedWhenRecordingStops ==
    LET Released(S) ==
            ~S.isRecording => (~S.timerIntervalId /\ ~S.waveformDrawingId /\ S.audioContext = 0)
    IN  /\ Released(St)
        /\ isRecording =>
              /\ \A stopThrows \in BOOLEAN :
                    /\ Released(stopRecording(St, stopThrows))
                    /\ Released(createNewNote(St, TRUE, stopThrows))
              /\ starts.relaxed > 0 =>
                    \A e \in AcquireErrors : \A r \in RecorderErrors :
                        Released(startRecordingRelaxed(St, << e >>, r))

\* C15: no error path leaves a resource behind.  After a failure to acquire
\* the device, a failure to construct the recorder, or a stop call that
\* throws, the controller is idle, the tracks of the capture stream are
\* stopped and its reference cleared, the audio context is closed and
\* cleared, and the interval and the animation frame are cancelled.
NoDanglingAfterError ==
    LET Clean(S) ==
            /\ ~S.isRecording
            /\ S.stream = 0
            /\ S.liveStreams = {}
            /\ S.audioContext = 0
            /\ S.openContexts = {}
            /\ ~S.timerIntervalId
            /\ ~S.waveformDrawingId
    IN  /\ starts.relaxed > 0 =>
              /\ \A e \in AcquireErrors : \A r \in RecorderErrors :
                    Clean(startRecordingRelaxed(St, << e >>, r))
              /\ \A r \in RecorderErrors \ {<< >>} :
                    Clean(startRecordingRelaxed(St, << >>, r))
        /\ starts.preferred > 0 =>
              \A r \in RecorderErrors \ {<< >>} :
                  Clean(startRecordingPreferred(St, << >>, r))
        /\ ( isRecording /\ mediaRecorder # 0
             /\ recorders[mediaRecorder].state # "recording" ) =>
              Clean(stopRecording(St, TRUE))

\* C16: when the open note is abandoned, by a new note or by the load of an
\* entry the History holds, it is committed if, refreshed from the DOM, it is
\* not effectively empty: the History then holds an entry with its id, its
\* refreshed title and regions and its raw transcript.  If it is effectively
\* empty, or the History holds no entry of the requested id, the History is
\* unchanged.
AbandonedNoteCommitted ==
    LET abandoned == updateCurrentNoteFromDOM(St).currentNote
        blank == /\ Trim(abandoned.title) = << >>
                 /\ Trim(abandoned.rawTranscription) = << >>
                 /\ Trim(abandoned.polishedNote) = << >>
                 /\ Trim(abandoned.elaboratedNote) = << >>
        Committed(S) ==
            IF blank
            THEN S.notesHistory = notesHistory
            ELSE /\ \E k \in 1..Len(S.notesHistory) : S.notesHistory[k] = abandoned
                 /\ S.localStorage.history = << S.notesHistory >>
        ids == { notesHistory[k].id : k \in 1..Len(notesHistory) }
    IN  /\ \A stopThrows \in BOOLEAN : Committed(createNewNote(St, TRUE, stopThrows))
        /\ \A id \in ids : Committed(loadNote(St, id))
        /\ \A id \in (0..nextNoteId) \ ids : loadNote(St, id) = St

\* The first note was given a title and abandoned for a new one: the
\* History holds it.
TitledNoteAbandoned ==
    /\ currentNote = Note(2, << >>, << >>, << >>, << >>)
    /\ notesHistory = << Note(1, << "t" >>, << >>, << >>, << >>) >>
    /\ localStorage.history = << notesHistory >>

\* C17: the load of an entry shows its title and its two regions, the
\* placeholder with the flag set for a field stored empty and the stored
\* content with the flag cleared otherwise, and leaves the Draft equal to
\* the note now open; createNewNote, when it returns, leaves the Draft equal
\* to the new empty note.
LoadShowsAndPersists ==
    /\ \A k \in 1..Len(notesHistory) :
          LET loaded == notesHistory[k]
              S2 == loadNote(St, loaded.id)
          IN  /\ S2.editorTitle =
                    IF loaded.title = << >>
                    THEN [text |-> TitlePlaceholder, ph |-> TRUE]
                    ELSE [text |-> loaded.title, ph |-> FALSE]
              /\ S2.polishedNote =
                    IF loaded.polishedNote = << >>
                    THEN [html |-> PolishedPlaceholder, ph |-> TRUE]
                    ELSE [html |-> loaded.polishedNote, ph |-> FALSE]
              /\ S2.elaboratedNote =
                    IF loaded.elaboratedNote = << >>
                    THEN [html |-> ElaboratedPlaceholder, ph |-> TRUE]
                    ELSE [html |-> loaded.elaboratedNote, ph |-> FALSE]
              /\ S2.currentNote = loaded
              /\ S2.localStorage.draft = << S2.currentNote >>
    /\ \A stopThrows \in BOOLEAN :
          ( stopThrows => ~( /\ isRecording
                             /\ mediaRecorder # 0
                             /\ recorders[mediaRecorder].state # "recording" ) )
          => LET S2 == createNewNote(St, TRUE, stopThrows)
             IN  /\ S2.currentNote = Note(nextNoteId, << >>, << >>, << >>, << >>)
                 /\ S2.localStorage.draft = << S2.currentNote >>
                 /\ S2.editorTitle = [text |-> TitlePlaceholder, ph |-> TRUE]
                 /\ S2.polishedNote = [html |-> PolishedPlaceholder, ph |-> TRUE]
                 /\ S2.elaboratedNote = [html |-> ElaboratedPlaceholder, ph |-> TRUE]

\* The first note, a title and nothing else, was loaded back from the
\* History: its title is shown, its regions show their placeholders, and the
\* Draft is this note.
TitledNoteLoaded ==
    /\ nextNoteId = 3
    /\ currentNote = Note(1, << "t" >>, << >>, << >>, << >>)
    /\ editorTitle = [text |-> << "t" >>, ph |-> FALSE]
    /\ polishedNote = [html |-> PolishedPlaceholder, ph |-> TRUE]
    /\ elaboratedNote = [html |-> ElaboratedPlaceholder, ph |-> TRUE]
    /\ localStorage.draft = << currentNote >>

\* C18: the Draft mirrors the open note: with no save pending and nothing
\* in flight, the stored Draft is the open note, id, title, raw transcript,
\* polished and elaborated content.
DraftMirrorsOpenNote ==
    ( /\ timeouts = {}
      /\ runs = << >>
      /\ taskQueue = << >>
      /\ starts = [closing |-> 0, preferred |-> 0, relaxed |-> 0]
      /\ ~isRecording )
    => localStorage.draft = << currentNote >>

\* C19: every write of the Draft or of the History first refreshes the open
\* note from the DOM: a region whose placeholder flag is set is stored empty,
\* a region whose flag is clear is stored with its content, a title that is
\* the placeholder text or blank is stored empty.  No stored note holds the
\* placeholder text as its title or as the content of a region.
PersistRefreshesFromDOM ==
    LET Stored(region) == IF region.ph THEN << >> ELSE region.html
        title == IF Trim(editorTitle.text) \in { TitlePlaceholder, << >> }
                 THEN << >> ELSE Trim(editorTitle.text)
        shown == Note(currentNote.id, title, currentNote.rawTranscription,
                      Stored(polishedNote), Stored(elaboratedNote))
        blank == /\ title = << >>
                 /\ Trim(shown.rawTranscription) = << >>
                 /\ Trim(shown.polishedNote) = << >>
                 /\ Trim(shown.elaboratedNote) = << >>
        persisted ==
            { localStorage.draft[k] : k \in 1..Len(localStorage.draft) }
            \cup UNION { { localStorage.history[k][j] : j \in 1..Len(localStorage.history[k]) } :
                         k \in 1..Len(localStorage.history) }
    IN  /\ \A immediate \in BOOLEAN :
              saveDraft(St, immediate).localStorage.draft = << shown >>
        /\ ~blank => saveCurrentNoteToHistory(St).localStorage.history[1][1] = shown
        /\ \A n \in persisted :
              /\ n.title # TitlePlaceholder
              /\ n.polishedNote # PolishedPlaceholder
              /\ n.elaboratedNote # ElaboratedPlaceholder

\* A dictation was transcribed and polished; the polished region holds the
\* result, the elaborated region, still flagged, a failure message; the
\* entry stored for the note holds the polished content and no elaboration.
FlaggedRegionStoredEmpty ==
    /\ ~polishedNote.ph
    /\ elaboratedNote.ph
    /\ elaboratedNote.html # ElaboratedPlaceholder
    /\ Len(localStorage.history) = 1
    /\ Len(localStorage.history[1]) = 1
    /\ localStorage.history[1][1].polishedNote = polishedNote.html
    /\ localStorage.history[1][1].elaboratedNote = << >>

\* C20: the raw transcript only grows: a transcription that returns the
\* text t turns the raw transcript r of the open note into r, a space and t,
\* trimmed; and in every step, the raw transcript the open note holds for an
\* id, and the one the History entry of an id holds, has its earlier value
\* as a prefix.
RawTranscriptAppendOnly ==
    [][ LET Prefix(a, b) == Len(a) <= Len(b) /\ SubSeq(b, 1, Len(a)) = a
        IN  /\ \A i \in 1..Len(runs) : \A response \in TranscriptionResponses :
                  ( runs[i].pc = "transcribing" /\ response # << >> /\ response[1] # << >> )
                  => getTranscription(St, i, response).currentNote.rawTranscription
                       = Trim(currentNote.rawTranscription \o << " " >> \o response[1])
            /\ currentNote'.id = currentNote.id
                  => Prefix(currentNote.rawTranscription, currentNote'.rawTranscription)
            /\ \A k \in 1..Len(notesHistory) : \A j \in 1..Len(notesHistory') :
                  notesHistory'[j].id = notesHistory[k].id
                  => Prefix(notesHistory[k].rawTranscription,
                            notesHistory'[j].rawTranscription) ]_vars

\* C21: a call in flight is not cancelled by a new note or by a load: when
\* a polish or an elaborate call returns a text that is not blank, the
\* result replaces what its region shows and is stored in the note open at
\* that moment; the History entries of the other notes are left as they are.
LateResultLandsInOpenNote ==
    LET OthersKept(S) ==
            \A k \in 1..Len(S.notesHistory) :
                S.notesHistory[k].id # currentNote.id
                => \E j \in 1..Len(notesHistory) : notesHistory[j] = S.notesHistory[k]
        Returned(response) ==
            response # << >> /\ response[1] # << >> /\ Trim(response[1]) # << >>
    IN  \A i \in 1..Len(runs) :
          /\ runs[i].polish = "pending" =>
                \A response \in PolishResponses : Returned(response) =>
                    LET S2 == polishSettles(St, i, response)
                    IN  /\ S2.polishedNote =
                              [html |-> MarkedParse(response[1]), ph |-> FALSE]
                        /\ S2.currentNote.id = currentNote.id
                        /\ S2.currentNote.polishedNote = MarkedParse(response[1])
                        /\ OthersKept(S2)
          /\ runs[i].elaborate = "pending" =>
                \A response \in ElaborateResponses : Returned(response) =>
                    LET S2 == elaborateSettles(St, i, response)
                    IN  /\ S2.elaboratedNote =
                              [html |-> MarkedParse(response[1]), ph |-> FALSE]
                        /\ S2.currentNote.id = currentNote.id
                        /\ S2.currentNote.elaboratedNote = MarkedParse(response[1])
                        /\ OthersKept(S2)

\* The first note was dictated and left for a new note while its polish
\* call was in flight: the second note, which has no raw transcript, holds
\* the polished text, and the entry of the first note holds none.
PolishLandedInNewNote ==
    /\ currentNote.id = 2
    /\ currentNote.rawTranscription = << >>
    /\ currentNote.polishedNote = MarkedParse(<< "#", " ", "T" >>)
    /\ polishedNote = [html |-> MarkedParse(<< "#", " ", "T" >>), ph |-> FALSE]
    /\ Len(notesHistory) = 1
    /\ notesHistory[1].id = 1
    /\ notesHistory[1].rawTranscription = << "h" >>
    /\ notesHistory[1].polishedNote = << >>

\* C22: the two enrichment calls of a run commute: from a state where both
\* are in flight, the open note, the title, the two regions with their
\* flags, the History and the status end the same whether the polish call
\* settles first or the elaborate call does, whatever each of them gives.
EnrichmentOrderIrrelevant ==
    LET Seen(S) ==
            << S.currentNote, S.editorTitle, S.polishedNote, S.elaboratedNote,
               S.notesHistory, S.historyList, S.localStorage.history,
               S.recordingStatus >>
    IN  \A i \in 1..Len(runs) :
          ( runs[i].polish = "pending" /\ runs[i].elaborate = "pending" ) =>
              \A p \in PolishResponses : \A e \in ElaborateResponses :
                  Seen(elaborateSettles(polishSettles(St, i, p), i, e))
                    = Seen(polishSettles(elaborateSettles(St, i, e), i, p))

\* A run has ended with both calls successful: the note has the inferred
\* title, both regions show their results, and the save they scheduled is
\* pending.
BothEnrichmentsLanded ==
    /\ runs = << >>
    /\ recordingStatus = StatusComplete
    /\ editorTitle = [text |-> << "T" >>, ph |-> FALSE]
    /\ polishedNote = [html |-> MarkedParse(<< "#", " ", "T" >>), ph |-> FALSE]
    /\ elaboratedNote = [html |-> MarkedParse(<< "e" >>), ph |-> FALSE]
    /\ notesHistory = << currentNote >>
    /\ timeouts # {}

\* C23: when the polish call returns a text with a line that begins with
\* the heading marker, the title becomes the first such line without its
\* leading heading markers and the white space after them, even when a line
\* without the marker comes before it, and the title does not begin with
\* the marker.
HeadingBecomesTitle ==
    \A i \in 1..Len(runs) : runs[i].polish = "pending" =>
        \A text \in TitleTexts \ {<< >>} :
            LET lines == TrimmedLines(text)
                headings == { k \in 1..Len(lines) :
                                lines[k] # << >> /\ Head(lines[k]) = "#" }
                title == polishSettles(St, i, << text >>).editorTitle
            IN  headings # {} =>
                  /\ title = [text |-> Trim(DropWhileHash(lines[First(headings)])),
                               ph |-> FALSE]
                  /\ title.text = << >> \/ Head(title.text) # "#"

\* C24: when the polish call returns a text without a heading line, the
\* title becomes the first line that is not empty and that, without its
\* leading decoration, is longer than three characters, cut to maxLength
\* characters and followed by an ellipsis exactly when it was longer; when
\* no line qualifies the title is the placeholder.
FallbackTitle ==
    \A i \in 1..Len(runs) : runs[i].polish = "pending" =>
        \A text \in TitleTexts \ {<< >>} :
            LET lines == TrimmedLines(text)
                headings == { k \in 1..Len(lines) :
                                lines[k] # << >> /\ Head(lines[k]) = "#" }
                Stripped(line) == Trim(DropDecoration(line))
                fitting == { k \in 1..Len(lines) :
                                lines[k] # << >> /\ Len(Stripped(lines[k])) > 3 }
                t == IF fitting = {} THEN << >> ELSE Stripped(lines[First(fitting)])
                title == polishSettles(St, i, << text >>).editorTitle
            IN  headings = {} =>
                  IF fitting # {}
                  THEN title =
                         [text |-> IF Len(t) > maxLength
                                   THEN SubSeq(t, 1, maxLength) \o << ".", ".", "." >>
                                   ELSE t,
                          ph |-> FALSE]
                  ELSE title = [text |-> TitlePlaceholder, ph |-> TRUE]

\* C24, amended: the line is taken without its leading decoration and
\* without its trailing emphasis and heading marks, and when no line
\* qualifies the title becomes the placeholder if it was blank or the
\* placeholder and is otherwise left as it is.
FallbackTitleFromStrippedLine ==
    \A i \in 1..Len(runs) : runs[i].polish = "pending" =>
        \A text \in TitleTexts \ {<< >>} :
            LET lines == TrimmedLines(text)
                headings == { k \in 1..Len(lines) :
                                lines[k] # << >> /\ Head(lines[k]) = "#" }
                Stripped(line) == Trim(DropTrailingMarks(DropDecoration(line)))
                fitting == { k \in 1..Len(lines) :
                                lines[k] # << >> /\ Len(Stripped(lines[k])) > 3 }
                t == IF fitting = {} THEN << >> ELSE Stripped(lines[First(fitting)])
                title == polishSettles(St, i, << text >>).editorTitle
            IN  headings = {} =>
                  IF fitting # {}
                  THEN title =
                         [text |-> IF Len(t) > maxLength
                                   THEN SubSeq(t, 1, maxLength) \o << ".", ".", "." >>
                                   ELSE t,
                          ph |-> FALSE]
                  ELSE IF Trim(editorTitle.text) \in { << >>, TitlePlaceholder }
                  THEN title = [text |-> TitlePlaceholder, ph |-> TRUE]
                  ELSE title = editorTitle

\* The polished text had one line of more than maxLength letters: the title
\* is its first maxLength letters and an ellipsis.
TitleCut ==
    /\ editorTitle = [text |-> Rep("a", maxLength) \o << ".", ".", "." >>, ph |-> FALSE]
    /\ \A i \in 1..Len(runs) : runs[i].polish = "settled"
    /\ ~polishedNote.ph

\* C25: persistence is best effort.  A write to the storage that throws
\* during a commit to the History or a save of the Draft does not end the
\* operation, which leaves the History in memory, the open note and what is
\* shown as they are when the write succeeds.  A slot that cannot be read
\* or parsed when the session starts gives an empty History, or a fresh
\* empty open note for the Draft, and the next action works as ever.
PersistenceBestEffort ==
    LET Memory(S) == [S EXCEPT !.localStorage = << >>]
        writing == [St EXCEPT !.localStorage.writable = TRUE]
        ids == { notesHistory[k].id : k \in 1..Len(notesHistory) }
    IN  /\ ~localStorage.writable =>
              /\ Memory(saveCurrentNoteToHistory(St)) = Memory(saveCurrentNoteToHistory(writing))
              /\ saveCurrentNoteToHistory(St).localStorage = localStorage
              /\ \A immediate \in BOOLEAN :
                    /\ Memory(saveDraft(St, immediate)) = Memory(saveDraft(writing, immediate))
                    /\ saveDraft(St, immediate).localStorage = localStorage
              /\ Memory(createNewNote(St, TRUE, FALSE)) = Memory(createNewNote(writing, TRUE, FALSE))
              /\ \A id \in ids : Memory(loadNote(St, id)) = Memory(loadNote(writing, id))
        /\ \A ls \in FailingSlots :
              LET S == DOMContentLoaded(ls)
              IN  /\ "history" \in ls.unreadable =>
                        S.notesHistory = << >> /\ S.historyList = << >>
                  /\ "draft" \in ls.unreadable =>
                        /\ S.currentNote = Note(1, << >>, << >>, << >>, << >>)
                        /\ S.editorTitle = [text |-> TitlePlaceholder, ph |-> TRUE]
                        /\ S.polishedNote = [html |-> PolishedPlaceholder, ph |-> TRUE]
                        /\ S.elaboratedNote = [html |-> ElaboratedPlaceholder, ph |-> TRUE]
                  /\ S.recordingStatus = StatusReady
                  /\ createNewNote(S, TRUE, FALSE).currentNote.id = S.nextNoteId

\* The session started over a History it could not read and a storage that
\* takes no write; a note was given a title and left for a new one: the
\* History in memory holds it, the stored History is as it was.
CommittedWithoutStorage ==
    /\ ~localStorage.writable
    /\ "history" \in localStorage.unreadable
    /\ localStorage.history = << StoredHistory(1) >>
    /\ notesHistory = << Note(1, << "t" >>, << >>, << >>, << >>) >>
    /\ historyList = << 1 >>
    /\ currentNote.id = 2

\* C26: when the transcription call throws or returns no text, no polish
\* and no elaborate call is made, the raw transcript of the open note and
\* the elaborated region are unchanged, the status reports the failure, and
\* the commit to the History is attempted once.
TranscriptionFailureEndsRun ==
    \A i \in 1..Len(runs) : runs[i].pc = "transcribing" =>
        \A response \in { << >>, << << >> >> } :
            LET S2 == getTranscription(St, i, response)
            IN  /\ S2.runs[i].polish = "idle"
                /\ S2.runs[i].elaborate = "idle"
                /\ S2.runs[i].pc = "done"
                /\ S2.runs[i].commits = 1
                /\ S2.currentNote.rawTranscription = currentNote.rawTranscription
                /\ S2.elaboratedNote = elaboratedNote
                /\ S2.recordingStatus =
                      IF response = << >> THEN StatusTranscriptionError ELSE StatusEmpty

\* The transcription of the first dictation threw: the run is over, the
\* status and the polished region report it, and the note has no transcript.
TranscriptionThrew ==
    /\ runs = << >>
    /\ recordingStatus = StatusTranscriptionError
    /\ polishedNote.html = InlineMessage("Error during transcription")
    /\ elaboratedNote = [html |-> ElaboratedPlaceholder, ph |-> TRUE]
    /\ currentNote.rawTranscription = << >>
    /\ audioChunks # << >>

\* C27: however the clicks on the record button interleave with the pending
\* requests for the device, at most one capture stream is live and at most
\* one recorder is recording at a time, and once the controller is idle
\* again, with no start pending and no recorder event queued, every stream
\* that was acquired has its tracks stopped.
OneCaptureAtATime ==
    /\ Cardinality(liveStreams) <= 1
    /\ Cardinality({ r \in 1..Len(recorders) : recorders[r].state = "recording" }) <= 1
    /\ ( /\ ~isRecording
         /\ starts = [closing |-> 0, preferred |-> 0, relaxed |-> 0]
         /\ taskQueue = << >> )
       => liveStreams = {}

\* C28: whenever isRecording is true, the capture stream is held and live
\* and the interval of the elapsed-time display is running: the stop event
\* of an earlier recorder does not take them from a recording that started
\* after it.
RecordingHoldsCapture ==
    isRecording =>
        /\ stream # 0
        /\ stream \in liveStreams
        /\ timerIntervalId

\* C29: the message a failed transcription, polish or elaborate call
\* writes into a region is never stored as content of a note: no polished
\* or elaborated field of the stored Draft, of the stored History or of the
\* History in memory is such a message, also when the region held content
\* before the failure.
NoMessagePersisted ==
    LET IsMessage(html) == Len(html) = 5 /\ html[2] = "<em>"
        stored ==
            { localStorage.draft[k] : k \in 1..Len(localStorage.draft) }
            \cup UNION { { localStorage.history[k][j] : j \in 1..Len(localStorage.history[k]) } :
                         k \in 1..Len(localStorage.history) }
            \cup { notesHistory[k] : k \in 1..Len(notesHistory) }
    IN  \A n \in stored : ~IsMessage(n.polishedNote) /\ ~IsMessage(n.elaboratedNote)

\* C30: when loadNote returns for an id the History holds, the open note is
\* the entry the History holds for that id after the load, and the title
\* and the regions show it, also when the id is that of the note that was
\* open.
LoadedNoteIsEntry ==
    \A k \in 1..Len(notesHistory) :
        LET id == notesHistory[k].id
            S2 == loadNote(St, id)
        IN  /\ findIndex(S2.notesHistory, id) # 0
            /\ LET entry == S2.notesHistory[findIndex(S2.notesHistory, id)]
               IN  /\ S2.currentNote = entry
                   /\ S2.editorTitle =
                         IF entry.title = << >>
                         THEN [text |-> TitlePlaceholder, ph |-> TRUE]
                         ELSE [text |-> entry.title, ph |-> FALSE]
                   /\ S2.polishedNote =
                         IF entry.polishedNote = << >>
                         THEN [html |-> PolishedPlaceholder, ph |-> TRUE]
                         ELSE [html |-> entry.polishedNote, ph |-> FALSE]
                   /\ S2.elaboratedNote =
                         IF entry.elaboratedNote = << >>
                         THEN [html |-> ElaboratedPlaceholder, ph |-> TRUE]
                         ELSE [html |-> entry.elaboratedNote, ph |-> FALSE]

\* C31: the text transcribed from a recording is appended only to the note
\* that was open when the recording started.  A note created while the
\* recording runs, or while its transcription call is in flight, has a new
\* id and is not that note: when the call returns a text, the raw
\* transcript of the new note is as createNewNote left it.
TranscriptStaysWithRecordedNote ==
    /\ ( /\ isRecording
         /\ mediaRecorder # 0
         /\ recorders[mediaRecorder].state = "recording"
         /\ taskQueue = << >>
         /\ runs = << >> )
       => LET S1 == createNewNote(St, TRUE, FALSE)
              S2 == onstop(ondataavailable([S1 EXCEPT !.taskQueue = Tail(@)],
                                           Head(S1.taskQueue), 1))
              S3 == processAudioRead(S2, Len(S2.runs), TRUE)
              S4 == getTranscription(S3, Len(S3.runs), << << "h" >> >>)
          IN  /\ S4.currentNote.id = S1.currentNote.id
              /\ S4.currentNote.rawTranscription = S1.currentNote.rawTranscription
    /\ \A i \in 1..Len(runs) : runs[i].pc = "transcribing" =>
          LET S1 == createNewNote(St, TRUE, FALSE)
              S2 == getTranscription(S1, i, << << "h" >> >>)
          IN  /\ S2.currentNote.id = S1.currentNote.id
              /\ S2.currentNote.rawTranscription = S1.currentNote.rawTranscription

=============================================================================
